---- MODULE Spec2Model ----
(***************************************************************************)
(* StackChip8: a CHIP-8 interpreter (src/src/main.rs).                     *)
(*                                                                         *)
(* The state is the Chip8 struct plus the program image handed to load,   *)
(* the SDL event queue, the time elapsed since last_timer_update, and the  *)
(* control location of main/run.  One action per method of Chip8.          *)
(***************************************************************************)
EXTENDS Integers, Sequences, FiniteSets, TLC

VARIABLES
    data,           \* the bytes read from the rom file (local of load)
    mem,            \* mem: [u8; 0x1000]
    v,              \* v: [u8; 16]
    i,              \* i: u16
    pc,             \* pc: usize
    stack,          \* stack: Vec<usize>
    delay_timer,    \* delay_timer: u32
    sound_timer,    \* sound_timer: u32
    elapsed,        \* ms since last_timer_update, saturated at TimerPeriod
    keys_pressed,   \* keys_pressed: [bool; 16]
    screen,         \* screen: [[bool; 64]; 32], as the set of <<row, col>> that are true
    canvas,         \* what render last presented, same representation
    audio_playing,  \* audio_playing: bool
    running,        \* running: bool
    events,         \* the event pump's queue of pending SDL events
    input_left,     \* how many more events the user will generate
    at,             \* control location: load, run, poll, timers, sound, step,
                    \*   wait, render, sleep, exited, fatal
    calls,          \* history: for every call not yet returned from, the PC of
                    \*   the 2nnn and the stack before it
    saved,          \* history: what the last Fx55 was given (x, i, v) and the
                    \*   bytes mem[i..i+x] it left behind
    drawn           \* history: when the last instruction was a Dxyn, its word,
                    \*   I, Vx, Vy, sprite bytes and the screen before and after

vars == <<data, mem, v, i, pc, stack, delay_timer, sound_timer, elapsed,
          keys_pressed, screen, canvas, audio_playing, running, events,
          input_left, at, calls, saved, drawn>>

(***************************************************************************)
(* Program constants                                                       *)
(***************************************************************************)
MemSize == 4096
RomBase == 512
NumRegs == 16
NumKeys == 16
ScreenW == 64
ScreenH == 32
U16 == 65536
TimerPeriod == 1000 \div 60
SleepMs == 2
None == -1

CHARACTER_SPRITES ==
    << 240, 144, 144, 144, 240,
        32,  96,  32,  32, 112,
       240,  16, 240, 128, 240,
       240,  16, 240,  16, 240,
       144, 144, 240,  16,  16,
       240, 128, 240,  16, 240,
       240, 128, 240, 144, 240,
       240,  16,  32,  64,  64,
       240, 144, 240, 144, 240,
       240, 144, 240,  16, 240,
       240, 144, 240, 144, 144,
       240, 128, 128, 128, 240,
       240, 128, 128, 128, 240,
       224, 144, 144, 144, 224,
       240, 128, 240, 128, 240,
       240, 128, 240, 128, 128 >>

(***************************************************************************)
(* Bounds of the model                                                     *)
(***************************************************************************)
MaxEvents == 2      \* events the user generates in one run
MaxQueue == 2       \* events pending in the event pump at once
MaxStack == 4       \* call depth explored

Min(a, b) == IF a < b THEN a ELSE b

(***************************************************************************)
(* Bit operations on bytes                                                 *)
(***************************************************************************)
RECURSIVE Bitwise(_, _, _, _)
Bitwise(a, b, w, tt) ==
    IF w = 0 THEN 0
    ELSE tt[a % 2][b % 2] + 2 * Bitwise(a \div 2, b \div 2, w - 1, tt)

BitOr(a, b)  == Bitwise(a, b, 8, [p \in 0..1 |-> [q \in 0..1 |-> IF p + q > 0 THEN 1 ELSE 0]])
BitAnd(a, b) == Bitwise(a, b, 8, [p \in 0..1 |-> [q \in 0..1 |-> p * q]])
BitXor(a, b) == Bitwise(a, b, 8, [p \in 0..1 |-> [q \in 0..1 |-> (p + q) % 2]])

RECURSIVE Pow2(_)
Pow2(k) == IF k = 0 THEN 1 ELSE 2 * Pow2(k - 1)

(***************************************************************************)
(* The machine as a record, for the pure part of step                      *)
(***************************************************************************)
Machine ==
    [mem |-> mem, v |-> v, i |-> i, pc |-> pc, stack |-> stack,
     delay_timer |-> delay_timer, sound_timer |-> sound_timer,
     keys_pressed |-> keys_pressed, screen |-> screen, fatal |-> FALSE]

Panic(m) == [m EXCEPT !.fatal = TRUE]
Advance(m, k) == [m EXCEPT !.pc = @ + k]

(***************************************************************************)
(* Instruction operands (step, lines 216-220)                              *)
(***************************************************************************)
Hi(op)  == op \div 4096
NNN(op) == op % 4096
NN(op)  == op % 256
N(op)   == op % 16
X(op)   == (op \div 256) % 16
Y(op)   == (op \div 16) % 16

(***************************************************************************)
(* Checked array accesses: an index out of range panics                    *)
(***************************************************************************)
\* self.mem[a] = b
MemSet(m, a, b) ==
    IF m.fatal THEN m
    ELSE IF a >= MemSize THEN Panic(m)
    ELSE [m EXCEPT !.mem[a] = b]

\* self.v[o] = self.mem[a]
RegLoad(m, o, a) ==
    IF m.fatal THEN m
    ELSE IF a >= MemSize THEN Panic(m)
    ELSE [m EXCEPT !.v[o] = m.mem[a]]

(***************************************************************************)
(* The instructions of step, one operator per arm of the match             *)
(***************************************************************************)
\* 00E0: clear_screen, pc += 2
Op00E0(m) == Advance([m EXCEPT !.screen = {}], 2)

\* a faulty 00EE: an empty stack is not noticed and PC is set to 0
Op00EE_IgnoresEmpty(m) ==
    IF Len(m.stack) = 0 THEN [m EXCEPT !.pc = 0]
    ELSE [m EXCEPT !.pc = m.stack[Len(m.stack)],
                   !.stack = SubSeq(m.stack, 1, Len(m.stack) - 1)]

\* 00EE: pc = stack.pop().unwrap()
Op00EE(m) ==
    IF Len(m.stack) = 0 THEN Panic(m)
    ELSE [m EXCEPT !.pc = m.stack[Len(m.stack)],
                   !.stack = SubSeq(m.stack, 1, Len(m.stack) - 1)]

\* 0nnn: panic
Op0nnn(m) == Panic(m)

\* 1nnn: pc = nnn
Op1nnn(m, nnn) == [m EXCEPT !.pc = nnn]

\* a faulty 2nnn: the address of the call itself is pushed
Op2nnn_PushesPC(m, nnn) == [m EXCEPT !.stack = Append(@, m.pc), !.pc = nnn]

\* 2nnn: stack.push(pc + 2), pc = nnn
Op2nnn(m, nnn) == [m EXCEPT !.stack = Append(@, m.pc + 2), !.pc = nnn]

\* 3xnn
Op3xnn(m, x, nn) == IF m.v[x] = nn THEN Advance(m, 4) ELSE Advance(m, 2)

\* 4xnn
Op4xnn(m, x, nn) == IF m.v[x] # nn THEN Advance(m, 4) ELSE Advance(m, 2)

\* 5xy_: the arm matches on the high nibble alone
Op5xy0(m, x, y) == IF m.v[x] = m.v[y] THEN Advance(m, 4) ELSE Advance(m, 2)

\* 6xnn
Op6xnn(m, x, nn) == Advance([m EXCEPT !.v[x] = nn], 2)

\* a faulty 7xnn: the carry of the addition goes to VF
Op7xnn_Carry(m, x, nn) ==
    Advance([m EXCEPT !.v[x] = (@ + nn) % 256,
                      !.v[15] = IF m.v[x] + nn > 255 THEN 1 ELSE 0], 2)

\* 7xnn: wrapping_add
Op7xnn(m, x, nn) == Advance([m EXCEPT !.v[x] = (@ + nn) % 256], 2)

\* 8xy0 .. 8xy3
Op8xy0(m, x, y) == Advance([m EXCEPT !.v[x] = m.v[y]], 2)
Op8xy1(m, x, y) == Advance([m EXCEPT !.v[x] = BitOr(@, m.v[y])], 2)
Op8xy2(m, x, y) == Advance([m EXCEPT !.v[x] = BitAnd(@, m.v[y])], 2)
Op8xy3(m, x, y) == Advance([m EXCEPT !.v[x] = BitXor(@, m.v[y])], 2)

\* 8xy4: VF is written first, then Vx
Op8xy4(m, x, y) ==
    LET res == m.v[x] + m.v[y]
        m1  == [m EXCEPT !.v[15] = IF res > 255 THEN 1 ELSE 0]
    IN  Advance([m1 EXCEPT !.v[x] = res % 256], 2)

\* 8xy5
Op8xy5(m, x, y) ==
    LET res == m.v[x] - m.v[y]
        m1  == [m EXCEPT !.v[15] = IF res >= 0 THEN 1 ELSE 0]
    IN  Advance([m1 EXCEPT !.v[x] = res % 256], 2)

\* 8xy6: v[F] = v[x] & 1; v[x] >>= 1
Op8xy6(m, x, y) ==
    LET m1 == [m EXCEPT !.v[15] = m.v[x] % 2]
    IN  Advance([m1 EXCEPT !.v[x] = @ \div 2], 2)

\* 8xy7
Op8xy7(m, x, y) ==
    LET res == m.v[y] - m.v[x]
        m1  == [m EXCEPT !.v[15] = IF res >= 0 THEN 1 ELSE 0]
    IN  Advance([m1 EXCEPT !.v[x] = res % 256], 2)

\* 8xyE: v[F] = (v[x] & 0x80) >> 7; v[x] <<= 1
Op8xyE(m, x, y) ==
    LET m1 == [m EXCEPT !.v[15] = m.v[x] \div 128]
    IN  Advance([m1 EXCEPT !.v[x] = (@ * 2) % 256], 2)

\* 9xy_: the skip, then a further pc += 2
Op9xy0(m, x, y) ==
    Advance(IF m.v[x] # m.v[y] THEN Advance(m, 4) ELSE Advance(m, 2), 2)

\* Annn
OpAnnn(m, nnn) == Advance([m EXCEPT !.i = nnn], 2)

\* Bnnn: pc = v[0] + nnn, then pc += 2
OpBnnn(m, nnn) == Advance([m EXCEPT !.pc = m.v[0] + nnn], 2)

\* Cxnn: rnd is the byte random::<u8>() returned
OpCxnn(m, x, nn, rnd) == Advance([m EXCEPT !.v[x] = BitAnd(rnd, nn)], 2)

\* Dxyn, one pixel of the double loop: k counts the pixels, row k \div 8 and
\* column k % 8 of the sprite. r carries the machine and the collision flag.
DrawPixel(r, xpos, ypos, k) ==
    LET m  == r.m
        sy == (k \div 8) + ypos
        wy == IF sy >= ScreenH THEN sy - ScreenH ELSE sy
        sx == (k % 8) + xpos
        wx == IF sx >= ScreenW THEN sx - ScreenW ELSE sx
        a  == m.i + (sy - ypos)
    IN  IF m.fatal THEN r
        ELSE IF a >= MemSize THEN [r EXCEPT !.m = Panic(m)]
        ELSE IF (m.mem[a] \div Pow2(7 - (sx - xpos))) % 2 = 0 THEN r
        ELSE IF wy >= ScreenH \/ wx >= ScreenW THEN [r EXCEPT !.m = Panic(m)]
        ELSE IF <<wy, wx>> \in m.screen
             THEN [m |-> [m EXCEPT !.screen = @ \ {<<wy, wx>>}], collision |-> TRUE]
             ELSE [r EXCEPT !.m.screen = @ \cup {<<wy, wx>>}]

RECURSIVE DrawLoop(_, _, _, _, _)
DrawLoop(r, xpos, ypos, k, n) ==
    IF k >= 8 * n \/ r.m.fatal THEN r
    ELSE DrawLoop(DrawPixel(r, xpos, ypos, k), xpos, ypos, k + 1, n)

\* a faulty Dxyn: a lit pixel under a set sprite bit stays lit (OR, not XOR)
OpDxyn_Or(m, x, y, n) ==
    LET r == DrawLoop([m |-> m, collision |-> FALSE], m.v[x], m.v[y], 0, n)
    IN  IF r.m.fatal THEN r.m
        ELSE Advance([r.m EXCEPT !.screen = @ \cup m.screen,
                                 !.v[15] = IF r.collision THEN 1 ELSE 0], 2)

\* Dxyn
OpDxyn(m, x, y, n) ==
    LET r == DrawLoop([m |-> m, collision |-> FALSE], m.v[x], m.v[y], 0, n)
    IN  IF r.m.fatal THEN r.m
        ELSE Advance([r.m EXCEPT !.v[15] = IF r.collision THEN 1 ELSE 0], 2)

\* Ex9E: keys_pressed[v[x]] is a checked index
OpEx9E(m, x) ==
    IF m.v[x] >= NumKeys THEN Panic(m)
    ELSE IF m.keys_pressed[m.v[x]] THEN Advance(m, 4) ELSE Advance(m, 2)

\* ExA1
OpExA1(m, x) ==
    IF m.v[x] >= NumKeys THEN Panic(m)
    ELSE IF ~m.keys_pressed[m.v[x]] THEN Advance(m, 4) ELSE Advance(m, 2)

\* Fx07: delay_timer as u8
OpFx07(m, x) == Advance([m EXCEPT !.v[x] = m.delay_timer % 256], 2)

\* Fx15, Fx18
OpFx15(m, x) == Advance([m EXCEPT !.delay_timer = m.v[x]], 2)
OpFx18(m, x) == Advance([m EXCEPT !.sound_timer = m.v[x]], 2)

\* Fx1E: i += v[x] on a u16. When the sum passes 0xFFFF a build with overflow
\* checks panics and a build without wraps; chk is which build this is.
OpFx1E(m, x, chk) ==
    LET sum == m.i + m.v[x]
    IN  IF sum >= U16 /\ chk THEN Panic(m)
        ELSE LET m1 == [m EXCEPT !.i = sum % U16]
             IN  Advance([m1 EXCEPT !.v[15] = IF m1.i > 4095 THEN 1 ELSE 0], 2)

\* Fx29
OpFx29(m, x) == Advance([m EXCEPT !.i = 5 * m.v[x]], 2)

\* Fx33: three checked stores, in order
OpFx33(m, x) ==
    LET m1 == MemSet(m, m.i, m.v[x] \div 100)
        m2 == MemSet(m1, m.i + 1, (m.v[x] % 100) \div 10)
        m3 == MemSet(m2, m.i + 2, m.v[x] % 10)
    IN  IF m3.fatal THEN m3 ELSE Advance(m3, 2)

\* Fx55: for o in 0..x { mem[i + o] = v[o] }, the range excludes x
RECURSIVE StoreLoop(_, _, _)
StoreLoop(m, o, x) ==
    IF o >= x THEN m ELSE StoreLoop(MemSet(m, m.i + o, m.v[o]), o + 1, x)

OpFx55(m, x) ==
    LET m1 == StoreLoop(m, 0, x) IN IF m1.fatal THEN m1 ELSE Advance(m1, 2)

\* Fx65: for o in 0..x { v[o] = mem[i + o] }
RECURSIVE LoadLoop(_, _, _)
LoadLoop(m, o, x) ==
    IF o >= x THEN m ELSE LoadLoop(RegLoad(m, o, m.i + o), o + 1, x)

OpFx65(m, x) ==
    LET m1 == LoadLoop(m, 0, x) IN IF m1.fatal THEN m1 ELSE Advance(m1, 2)

\* the last arm: panic!("Unsupported opcode")
Unsupported(m) == Panic(m)

IsFx0A(op) == Hi(op) = 15 /\ NN(op) = 10
IsCxnn(op) == Hi(op) = 12
IsFx1E(op) == Hi(op) = 15 /\ NN(op) = 30
Is2nnn(op) == Hi(op) = 2
Is00EE(op) == Hi(op) = 0 /\ NN(op) = 238

(***************************************************************************)
(* The match of step (lines 221-298) for every instruction but Fx0A, which *)
(* calls wait_for_key. Arms are tried in order, as in the source.          *)
(***************************************************************************)
Exec(m, op, rnd, chk) ==
    LET x == X(op)  y == Y(op)  n == N(op)  nn == NN(op)  nnn == NNN(op)
        h == Hi(op)
    IN  CASE h = 0 /\ nn = 224 -> Op00E0(m)
          [] h = 0 /\ nn = 238 -> Op00EE(m)
          [] h = 0 /\ nn \notin {224, 238} -> Op0nnn(m)
          [] h = 1 -> Op1nnn(m, nnn)
          [] h = 2 -> Op2nnn(m, nnn)
          [] h = 3 -> Op3xnn(m, x, nn)
          [] h = 4 -> Op4xnn(m, x, nn)
          [] h = 5 -> Op5xy0(m, x, y)
          [] h = 6 -> Op6xnn(m, x, nn)
          [] h = 7 -> Op7xnn(m, x, nn)
          [] h = 8 /\ n = 0 -> Op8xy0(m, x, y)
          [] h = 8 /\ n = 1 -> Op8xy1(m, x, y)
          [] h = 8 /\ n = 2 -> Op8xy2(m, x, y)
          [] h = 8 /\ n = 3 -> Op8xy3(m, x, y)
          [] h = 8 /\ n = 4 -> Op8xy4(m, x, y)
          [] h = 8 /\ n = 5 -> Op8xy5(m, x, y)
          [] h = 8 /\ n = 6 -> Op8xy6(m, x, y)
          [] h = 8 /\ n = 7 -> Op8xy7(m, x, y)
          [] h = 8 /\ n = 14 -> Op8xyE(m, x, y)
          [] h = 9 -> Op9xy0(m, x, y)
          [] h = 10 -> OpAnnn(m, nnn)
          [] h = 11 -> OpBnnn(m, nnn)
          [] h = 12 -> OpCxnn(m, x, nn, rnd)
          [] h = 13 -> OpDxyn(m, x, y, n)
          [] h = 14 /\ nn = 158 -> OpEx9E(m, x)
          [] h = 14 /\ nn = 161 -> OpExA1(m, x)
          [] h = 15 /\ nn = 7 -> OpFx07(m, x)
          [] h = 15 /\ nn = 21 -> OpFx15(m, x)
          [] h = 15 /\ nn = 24 -> OpFx18(m, x)
          [] h = 15 /\ nn = 30 -> OpFx1E(m, x, chk)
          [] h = 15 /\ nn = 41 -> OpFx29(m, x)
          [] h = 15 /\ nn = 51 -> OpFx33(m, x)
          [] h = 15 /\ nn = 85 -> OpFx55(m, x)
          [] h = 15 /\ nn = 101 -> OpFx65(m, x)
          [] OTHER -> Unsupported(m)

(***************************************************************************)
(* The host's events                                                       *)
(***************************************************************************)
Keycodes == {"X", "Num1", "Escape"}     \* the keys the user touches

Quit == [type |-> "Quit", keycode |-> "-"]
KeyDown(k) == [type |-> "KeyDown", keycode |-> k]
KeyUp(k) == [type |-> "KeyUp", keycode |-> k]
Events == {Quit} \cup {KeyDown(k) : k \in Keycodes} \cup {KeyUp(k) : k \in Keycodes}

match_keycode_to_key(keycode) ==
    CASE keycode = "Num1" -> 1
      [] keycode = "Num2" -> 2
      [] keycode = "Num3" -> 3
      [] keycode = "Num4" -> 12
      [] keycode = "Q" -> 4
      [] keycode = "W" -> 5
      [] keycode = "E" -> 6
      [] keycode = "R" -> 13
      [] keycode = "A" -> 7
      [] keycode = "S" -> 8
      [] keycode = "D" -> 9
      [] keycode = "F" -> 14
      [] keycode = "Z" -> 10
      [] keycode = "X" -> 0
      [] keycode = "C" -> 11
      [] keycode = "V" -> 15
      [] OTHER -> None

\* a faulty arm: the quit event is dropped
PollEvent_IgnoresQuit(r, e) ==
    LET index == match_keycode_to_key(e.keycode)
    IN  CASE e.type = "KeyDown" /\ index # None -> [r EXCEPT !.keys[index] = TRUE]
          [] e.type = "KeyUp" /\ index # None -> [r EXCEPT !.keys[index] = FALSE]
          [] OTHER -> r

\* one arm of the match in poll_events; r is [keys, running]
PollEvent(r, e) ==
    LET index == match_keycode_to_key(e.keycode)
    IN  CASE e.type = "Quit" -> [r EXCEPT !.running = FALSE]
          [] e.type = "KeyDown" /\ index # None -> [r EXCEPT !.keys[index] = TRUE]
          [] e.type = "KeyUp" /\ index # None -> [r EXCEPT !.keys[index] = FALSE]
          [] OTHER -> r

\* for event in self.event_pump.poll_iter() { ... } of poll_events
RECURSIVE PollLoop(_, _)
PollLoop(r, evs) ==
    IF evs = <<>> THEN r ELSE PollLoop(PollEvent(r, Head(evs)), Tail(evs))

\* the for loop of wait_for_key: r is [keys, running, key, rest]; a mapped
\* key-down returns at once and leaves the later events in the pump
RECURSIVE WaitLoop(_, _)
WaitLoop(r, evs) ==
    IF evs = <<>> THEN [r EXCEPT !.rest = <<>>]
    ELSE LET e == Head(evs)
             index == match_keycode_to_key(e.keycode)
         IN  CASE e.type = "KeyDown" /\ index # None ->
                      [r EXCEPT !.keys[index] = TRUE, !.key = index, !.rest = Tail(evs)]
               [] e.type = "KeyUp" /\ index # None ->
                      WaitLoop([r EXCEPT !.keys[index] = FALSE], Tail(evs))
               [] e.type = "Quit" ->
                      WaitLoop([r EXCEPT !.running = FALSE], Tail(evs))
               [] OTHER -> WaitLoop(r, Tail(evs))

(***************************************************************************)
(* Program images                                                          *)
(***************************************************************************)
W(a, b, c, d) == a * 4096 + b * 256 + c * 16 + d

\* the bytes of a sequence of instruction words, high byte first
Bytes(ws) ==
    [k \in 1..(2 * Len(ws)) |->
        IF k % 2 = 1 THEN ws[(k + 1) \div 2] \div 256 ELSE ws[k \div 2] % 256]

Setups ==
    { <<>>,
      << W(6,0,0,5) >>,
      << W(6,0,0,5), W(6,1,0,5) >>,
      << W(6,0,0,5), W(6,1,0,7) >>,
      << W(6,0,15,15), W(6,1,15,15) >>,
      << W(10,15,15,14) >>,
      << W(6,15,0,1), W(6,0,0,5) >> }

Tails ==
    { W(0,0,14,0), W(0,0,14,14), W(0,0,0,0), W(0,1,2,3),
      W(1,2,0,0), W(1,2,0,1), W(1,15,15,15),
      W(2,2,0,0), W(2,3,0,1),
      W(3,0,0,5), W(3,0,0,0), W(4,0,0,5), W(4,0,0,0),
      W(5,0,1,0), W(5,0,1,1),
      W(6,0,10,10), W(7,0,0,1), W(7,1,15,15),
      W(8,0,1,0), W(8,0,1,1), W(8,0,1,2), W(8,0,1,3), W(8,0,1,4),
      W(8,0,1,5), W(8,0,1,6), W(8,0,1,7), W(8,0,1,14),
      W(8,0,1,8), W(8,0,1,15),
      W(8,15,1,4), W(8,0,15,4), W(8,15,1,6), W(8,15,1,14),
      W(6,15,0,9), W(7,15,0,1), W(7,0,15,15), W(8,15,0,0), W(8,15,0,1),
      W(8,15,0,2), W(8,15,0,3), W(12,15,0,3), W(15,15,0,7), W(15,15,6,5),
      W(9,0,1,0), W(9,0,1,1),
      W(10,1,2,3), W(11,2,0,0), W(11,15,15,15),
      W(12,0,0,3),
      W(13,0,1,5), W(13,0,1,2),
      W(14,0,9,14), W(14,0,10,1), W(14,0,0,0),
      W(15,0,0,7), W(15,0,0,10), W(15,0,1,5), W(15,0,1,8), W(15,0,1,14),
      W(15,0,2,9), W(15,0,3,3), W(15,0,5,5), W(15,1,5,5), W(15,2,5,5),
      W(15,0,6,5), W(15,1,6,5), W(15,2,6,5), W(15,0,0,0) }

\* how many times 255 must be added to 0xFFF to pass the top of a u16
AddsToOverflow == (U16 - MemSize) \div 255 + 1

Programs ==
    { \* nested calls and their returns, then one return too many
      << W(2,2,0,4), W(0,0,14,14), W(2,2,0,8), W(0,0,14,14), W(0,0,14,14) >>,
      \* store V0..V1, overwrite them, load them back
      << W(6,0,0,5), W(6,1,0,7), W(10,3,0,0), W(15,1,5,5),
         W(6,0,0,0), W(6,1,0,0), W(15,1,6,5) >>,
      \* start the delay timer, then wait for a key
      << W(6,0,0,3), W(15,0,1,5), W(15,0,1,8), W(15,1,0,10), W(1,2,0,8) >>,
      \* the decimal digits of 255, stored from 0xFFE: the third falls off memory
      << W(6,0,15,15), W(10,15,15,14), W(15,0,3,3) >>,
      \* F355 with I = 0xFFF: the second store falls off memory
      << W(6,0,0,5), W(6,1,0,7), W(10,15,15,15), W(15,3,5,5) >>,
      \* 8xy4 with x = F: VF = 5 plus V1 = 3
      << W(6,15,0,5), W(6,1,0,3), W(8,15,1,4) >>,
      \* 8xy6 with x = F and VF odd
      << W(6,15,0,1), W(8,15,1,6) >>,
      \* glyph 0 drawn at (62, 30): it wraps once at both edges
      << W(6,0,3,14), W(6,1,1,14), W(13,0,1,5) >>,
      \* glyph 0 drawn at (128, 0)
      << W(6,0,8,0), W(13,0,1,5) >>,
      \* I = 0xFFF, then V0 = 255 added to it until the u16 overflows
      << W(6,0,15,15), W(10,15,15,15) >> \o [k \in 1..AddsToOverflow |-> W(15,0,1,14)],
      \* wait for a key into VF
      << W(15,15,0,10) >>,
      \* glyph 0 drawn three times at (0, 0)
      << W(13,0,1,5), W(13,0,1,5), W(13,0,1,5) >>,
      \* glyph 0 at (0, 0), then twice at (2, 0), overlapping the first
      << W(13,0,1,5), W(6,0,0,2), W(13,0,1,5), W(13,0,1,5) >>,
      \* plant 6000 in the last two bytes of memory and run it
      << W(6,0,6,0), W(6,1,0,0), W(10,15,15,14), W(15,2,5,5), W(1,15,15,14) >> }

Images ==
    {Bytes(p) : p \in Programs}
    \cup {Bytes(s \o <<t>>) : s \in Setups, t \in Tails}
    \cup {[k \in 1..n |-> IF k = 1 THEN 18 ELSE IF k = 2 THEN 0 ELSE 255] :
             n \in {0, MemSize - RomBase, MemSize - RomBase + 1}}

\* the programs that are run with a user at the keyboard
Interactive ==
    { << W(15,1,0,10) >>,
      << W(15,15,0,10) >>,
      << W(6,0,0,1), W(14,0,9,14), W(14,0,10,1) >>,
      << W(6,0,0,3), W(15,0,1,5), W(15,0,1,8), W(15,1,0,10), W(1,2,0,8) >> }

\* what one run is given: the rom file, and how many events its user generates
Inputs ==
    {[data |-> d, events |-> 0] : d \in Images}
    \cup {[data |-> Bytes(p), events |-> MaxEvents] : p \in Interactive}

\* no register store has happened yet
NotSaved == [x |-> None]

\* the last instruction was not a draw
NotDrawn == [op |-> None]

(***************************************************************************)
(* Init: main has its argument and is about to call load. The Chip8 does   *)
(* not exist yet; its fields hold the values load will give them, except   *)
(* mem, which load fills.                                                  *)
(***************************************************************************)
Init ==
    /\ \E in \in Inputs : data = in.data /\ input_left = in.events
    /\ at = "load"
    /\ mem = [a \in 0..(MemSize - 1) |-> 0]
    /\ v = [r \in 0..(NumRegs - 1) |-> 0]
    /\ i = 0
    /\ pc = 512
    /\ stack = <<>>
    /\ delay_timer = 0
    /\ sound_timer = 0
    /\ elapsed = 0
    /\ keys_pressed = [k \in 0..(NumKeys - 1) |-> FALSE]
    /\ screen = {}
    /\ canvas = {}
    /\ audio_playing = FALSE
    /\ running = FALSE
    /\ events = <<>>
    /\ calls = <<>>
    /\ saved = NotSaved
    /\ drawn = NotDrawn

\* a faulty load: the glyph table is not copied
LoadedMem_NoGlyphs(d) ==
    [a \in 0..(MemSize - 1) |->
        IF a >= RomBase /\ a < RomBase + Len(d) THEN d[a - RomBase + 1] ELSE 0]

\* the memory load builds: the glyphs at 0..79, the image from 512
LoadedMem(d) ==
    [a \in 0..(MemSize - 1) |->
        IF a < 80 THEN CHARACTER_SPRITES[a + 1]
        ELSE IF a >= RomBase /\ a < RomBase + Len(d) THEN d[a - RomBase + 1]
        ELSE 0]

\* Chip8::load. The slice mem[512..512 + data.len()] panics when it ends
\* past the array.
Load ==
    /\ at = "load"
    /\ IF RomBase + Len(data) > MemSize
       THEN /\ at' = "fatal"
            /\ UNCHANGED mem
       ELSE /\ at' = "run"
            /\ mem' = LoadedMem(data)
    /\ data' = <<>>
    /\ UNCHANGED <<v, i, pc, stack, delay_timer, sound_timer, elapsed,
                   keys_pressed, screen, canvas, audio_playing, running,
                   events, input_left, calls, saved, drawn>>

\* Chip8::run up to the first test of the while loop
Run ==
    /\ at = "run"
    /\ running' = TRUE
    /\ at' = "poll"
    /\ UNCHANGED <<data, mem, v, i, pc, stack, delay_timer, sound_timer, elapsed,
                   keys_pressed, screen, canvas, audio_playing, events,
                   input_left, calls, saved, drawn>>

\* Chip8::poll_events
PollEvents ==
    /\ at = "poll"
    /\ LET r == PollLoop([keys |-> keys_pressed, running |-> running], events)
       IN  /\ keys_pressed' = r.keys
           /\ running' = r.running
    /\ events' = <<>>
    /\ at' = "timers"
    /\ UNCHANGED <<data, mem, v, i, pc, stack, delay_timer, sound_timer, elapsed,
                   screen, canvas, audio_playing, input_left, calls, saved, drawn>>

\* a faulty decrement: no test for zero
Dec_NoFloor(t) == t - 1

\* a timer's decrement (lines 202 and 203)
Dec(t) == IF t > 0 THEN t - 1 ELSE t

\* Chip8::update_timers
UpdateTimers ==
    /\ at = "timers"
    /\ IF elapsed >= TimerPeriod
       THEN /\ delay_timer' = Dec(delay_timer)
            /\ sound_timer' = Dec(sound_timer)
            /\ elapsed' = 0
       ELSE UNCHANGED <<delay_timer, sound_timer, elapsed>>
    /\ at' = "sound"
    /\ UNCHANGED <<data, mem, v, i, pc, stack, keys_pressed, screen, canvas,
                   audio_playing, running, events, input_left, calls, saved, drawn>>

\* Chip8::play_sound
PlaySound ==
    /\ at = "sound"
    /\ audio_playing' =
          LET a1 == IF sound_timer > 0 /\ ~audio_playing THEN TRUE ELSE audio_playing
          IN  IF sound_timer = 0 /\ a1 THEN FALSE ELSE a1
    /\ at' = "step"
    /\ UNCHANGED <<data, mem, v, i, pc, stack, delay_timer, sound_timer, elapsed,
                   keys_pressed, screen, canvas, running, events, input_left, calls, saved, drawn>>

\* the instruction word at pc (line 214)
Fetch(m) == m.mem[m.pc] * 256 + m.mem[m.pc + 1]

\* the history of open calls after executing op from machine m into r
CallsAfter(m, r, op) ==
    IF r.fatal THEN calls
    ELSE IF Is2nnn(op) THEN Append(calls, [pc |-> m.pc, stack |-> m.stack])
    ELSE IF Is00EE(op) THEN SubSeq(calls, 1, Len(calls) - 1)
    ELSE calls

IsFx55(op) == Hi(op) = 15 /\ NN(op) = 85
IsFx65(op) == Hi(op) = 15 /\ NN(op) = 101

\* the history of the last register store after executing op from m into r
SavedAfter(m, r, op) ==
    IF r.fatal \/ ~IsFx55(op) THEN saved
    ELSE IF m.i + X(op) >= MemSize THEN NotSaved
    ELSE [x |-> X(op), i |-> m.i, v |-> m.v,
          bytes |-> [k \in 0..X(op) |-> r.mem[m.i + k]]]

\* the history of the last instruction, when it was a draw, after executing
\* op from m into r
DrawnAfter(m, r, op) ==
    IF r.fatal THEN drawn
    ELSE IF Hi(op) # 13 \/ m.i + N(op) > MemSize THEN NotDrawn
    ELSE [op |-> op, i |-> m.i, vx |-> m.v[X(op)], vy |-> m.v[Y(op)],
          sprite |-> [k \in 0..(N(op) - 1) |-> m.mem[m.i + k]],
          before |-> m.screen, after |-> r.screen]

SetMachine(r) ==
    /\ mem' = r.mem
    /\ v' = r.v
    /\ i' = r.i
    /\ pc' = r.pc
    /\ stack' = r.stack
    /\ delay_timer' = r.delay_timer
    /\ sound_timer' = r.sound_timer
    /\ keys_pressed' = r.keys_pressed
    /\ screen' = r.screen

\* Chip8::step. The fetch indexes mem at pc and pc + 1 and panics when either
\* is past the array. Fx0A enters wait_for_key; the rest run to completion.
Step ==
    /\ at = "step"
    /\ IF pc + 1 >= MemSize
       THEN /\ at' = "fatal"
            /\ UNCHANGED <<mem, v, i, pc, stack, delay_timer, sound_timer,
                           keys_pressed, screen, calls, saved, drawn>>
       ELSE LET op == Fetch(Machine)
            IN  IF IsFx0A(op)
                THEN /\ at' = "wait"
                     /\ drawn' = NotDrawn
                     /\ UNCHANGED <<mem, v, i, pc, stack, delay_timer, sound_timer,
                                    keys_pressed, screen, calls, saved>>
                ELSE /\ Is2nnn(op) => Len(stack) < MaxStack
                     /\ \E rnd \in (IF IsCxnn(op) THEN 0..255 ELSE {0}),
                           chk \in (IF IsFx1E(op) THEN BOOLEAN ELSE {FALSE}) :
                           LET r == Exec(Machine, op, rnd, chk)
                           IN  /\ SetMachine(r)
                               /\ calls' = CallsAfter(Machine, r, op)
                               /\ saved' = SavedAfter(Machine, r, op)
                               /\ drawn' = DrawnAfter(Machine, r, op)
                               /\ at' = IF r.fatal THEN "fatal" ELSE "render"
    /\ UNCHANGED <<data, elapsed, canvas, audio_playing, running, events, input_left>>

SleepDurations == {SleepMs, TimerPeriod}

\* Chip8::wait_for_key, one turn of its loop: drain the pump; a mapped
\* key-down returns into step (v[x] = key, pc += 2), otherwise sleep and
\* go round again.
WaitForKey ==
    /\ at = "wait"
    /\ LET r == WaitLoop([keys |-> keys_pressed, running |-> running,
                          key |-> None, rest |-> <<>>], events)
           x == X(Fetch(Machine))
       IN  /\ keys_pressed' = r.keys
           /\ running' = r.running
           /\ events' = r.rest
           /\ IF r.key # None
              THEN /\ v' = [v EXCEPT ![x] = r.key]
                   /\ pc' = pc + 2
                   /\ at' = "render"
                   /\ UNCHANGED elapsed
              ELSE /\ \E d \in SleepDurations : elapsed' = Min(elapsed + d, TimerPeriod)
                   /\ at' = "wait"
                   /\ UNCHANGED <<v, pc>>
    /\ UNCHANGED <<data, mem, i, stack, delay_timer, sound_timer, screen, canvas,
                   audio_playing, input_left, calls, saved, drawn>>

\* Chip8::render
Render ==
    /\ at = "render"
    /\ canvas' = screen
    /\ at' = "sleep"
    /\ UNCHANGED <<data, mem, v, i, pc, stack, delay_timer, sound_timer, elapsed,
                   keys_pressed, screen, audio_playing, running, events,
                   input_left, calls, saved, drawn>>

\* the sleep that ends an iteration of run, and the while test after it
Sleep ==
    /\ at = "sleep"
    /\ \E d \in SleepDurations : elapsed' = Min(elapsed + d, TimerPeriod)
    /\ at' = IF running THEN "poll" ELSE "exited"
    /\ UNCHANGED <<data, mem, v, i, pc, stack, delay_timer, sound_timer,
                   keys_pressed, screen, canvas, audio_playing, running, events,
                   input_left, calls, saved, drawn>>

\* the user: an event enters the pump. Events are seen only by poll_iter,
\* so arrivals are placed at the two places that call it.
Deliver ==
    /\ at \in {"poll", "wait"}
    /\ input_left > 0
    /\ Len(events) < MaxQueue
    /\ \E e \in Events : events' = Append(events, e)
    /\ input_left' = input_left - 1
    /\ UNCHANGED <<data, mem, v, i, pc, stack, delay_timer, sound_timer, elapsed,
                   keys_pressed, screen, canvas, audio_playing, running, at, calls, saved, drawn>>

Next ==
    \/ Load
    \/ Run
    \/ PollEvents
    \/ UpdateTimers
    \/ PlaySound
    \/ Step
    \/ WaitForKey
    \/ Render
    \/ Sleep
    \/ Deliver

Spec == Init /\ [][Next]_vars

(***************************************************************************)
(* Properties                                                              *)
(***************************************************************************)
\* the instruction step is about to run, when the fetch is in range
CurOp == Fetch(Machine)
Fetching == at = "step" /\ pc + 1 < MemSize
\* a step that ran an instruction to completion
Executed == Fetching /\ at' = "render"
\* a step that ended in a panic
Failed == at = "step" /\ at' = "fatal"

MachineUnchanged ==
    UNCHANGED <<mem, v, i, pc, stack, delay_timer, sound_timer, keys_pressed, screen>>

\* C1: each of the skips 3xnn, 4xnn, 5xy0, 9xy0 executed at p leaves PC at
\* p+4 when its condition holds (Vx == nn, Vx != nn, Vx == Vy, Vx != Vy) and
\* at p+2 when it does not.
C1_SkipSetsPC ==
    [][Executed =>
        LET x == X(CurOp)  y == Y(CurOp)  nn == NN(CurOp)
            Skip(c) == pc' = IF c THEN pc + 4 ELSE pc + 2
        IN  /\ Hi(CurOp) = 3 => Skip(v[x] = nn)
            /\ Hi(CurOp) = 4 => Skip(v[x] # nn)
            /\ (Hi(CurOp) = 5 /\ N(CurOp) = 0) => Skip(v[x] = v[y])
            /\ (Hi(CurOp) = 9 /\ N(CurOp) = 0) => Skip(v[x] # v[y])]_vars

\* C2: after Bnnn the program counter is exactly V0 + nnn, V0 as it was
\* before the instruction.
C2_JumpV0 ==
    [][(Executed /\ Hi(CurOp) = 11) => pc' = v[0] + NNN(CurOp)]_vars

\* C3: Fx65 executed with the x and I of the last Fx55, and with
\* mem[I..I+x] as that Fx55 left it, gives every register V0..Vx the value
\* it had just before the Fx55.
C3_StoreLoadRoundTrip ==
    [][(/\ Executed
        /\ IsFx65(CurOp)
        /\ saved.x = X(CurOp)
        /\ saved.i = i
        /\ \A k \in 0..saved.x : mem[i + k] = saved.bytes[k])
       => \A k \in 0..X(CurOp) : v'[k] = saved.v[k]]_vars

\* C4: 2nnn at p pushes p+2 and sets PC to nnn, and the 00EE matched with a
\* call made at p sets PC to p+2 and leaves the stack as it was before that
\* call.
C4_CallReturn ==
    [][Executed =>
        /\ Is2nnn(CurOp) => /\ stack' = Append(stack, pc + 2)
                            /\ pc' = NNN(CurOp)
        /\ Is00EE(CurOp) => /\ calls # <<>>
                            /\ pc' = calls[Len(calls)].pc + 2
                            /\ stack' = calls[Len(calls)].stack]_vars

\* the word at address a of memory
WordAt(a) == mem[a] * 256 + mem[a + 1]

\* C4 witness: the program 2204 00EE 2208 00EE 00EE has returned from the
\* inner call and then from the outer one, and is back at 0x202 with the
\* stack empty again.
C4_Witness ==
    /\ at = "render"
    /\ WordAt(512) = W(2,2,0,4)
    /\ WordAt(516) = W(2,2,0,8)
    /\ WordAt(518) = W(0,0,14,14)
    /\ WordAt(520) = W(0,0,14,14)
    /\ pc = 514
    /\ stack = <<>>

\* C5: whenever step is about to fetch, PC is even and PC and PC+1 are
\* addresses of memory.
C5_PCEvenInRange ==
    at = "step" => (pc % 2 = 0 /\ pc >= 0 /\ pc + 1 <= MemSize - 1)

\* a turn of the loop of wait_for_key (the only other step taken from "wait"
\* is the arrival of an event, which uses up input_left)
WaitTurn == at = "wait" /\ input_left' = input_left

\* C6: a turn of the key-wait loop that starts with running == false, or that
\* consumes a quit event, ends the wait: the machine does not go on polling.
C6_QuitEndsWait ==
    [][(WaitTurn /\ (~running \/ ~running')) => at' # "wait"]_vars

\* C7: the key-wait does not stall the timers: a turn of the wait loop taken
\* when a 1/60 s tick is due lowers a non-zero delay_timer and a non-zero
\* sound_timer by 1, as update_timers would.
C7_WaitKeepsTimers ==
    [][(WaitTurn /\ elapsed >= TimerPeriod) =>
        /\ delay_timer > 0 => delay_timer' = delay_timer - 1
        /\ sound_timer > 0 => sound_timer' = sound_timer - 1]_vars

\* C8: when step fails, the machine state (memory, registers, I, PC, stack,
\* timers, key latch, framebuffer) is what it was before the instruction
\* was fetched.
C8_NoPartialUpdate ==
    [][Failed => MachineUnchanged]_vars

\* the instruction words that match no row of the decode table
NoRow(op) ==
    \/ Hi(op) = 0 /\ NN(op) \notin {224, 238}
    \/ Hi(op) \in {5, 9} /\ N(op) # 0
    \/ Hi(op) = 8 /\ N(op) \in (8..13) \cup {15}
    \/ Hi(op) = 14 /\ NN(op) \notin {158, 161}
    \/ Hi(op) = 15 /\ NN(op) \notin {7, 10, 21, 24, 30, 41, 51, 85, 101}

\* C9: a word that matches no row of the decode table is fatal, and leaves
\* PC and the rest of the machine state as they were.
C9_NoRowIsFatal ==
    [][(Fetching /\ NoRow(CurOp) /\ at' # "step") =>
        (at' = "fatal" /\ MachineUnchanged)]_vars

\* C10: 00EE with the call stack empty is fatal: step ends in the fatal
\* state without assigning PC (or anything else), and nothing runs after.
C10_UnderflowFatal ==
    [][/\ (Fetching /\ Is00EE(CurOp) /\ stack = <<>> /\ at' # "step")
          => (at' = "fatal" /\ MachineUnchanged)
       /\ at = "fatal" => (at' = "fatal" /\ MachineUnchanged)]_vars

\* C10 witness: the program 2204 00EE 2208 00EE 00EE has made two calls and
\* two returns and has died on the third 00EE, at 0x202.
C10_Witness ==
    /\ at = "fatal"
    /\ WordAt(512) = W(2,2,0,4)
    /\ WordAt(516) = W(2,2,0,8)
    /\ pc = 514
    /\ Is00EE(WordAt(pc))
    /\ stack = <<>>
    /\ calls = <<>>

\* C11: after 8xy4, for every x and y, VF is 1 if Vx + Vy (as they were)
\* exceeds 255 and 0 otherwise, and for x other than F Vx is the sum mod 256.
C11_AddCarry ==
    [][(Executed /\ Hi(CurOp) = 8 /\ N(CurOp) = 4) =>
        LET x == X(CurOp)  y == Y(CurOp)
        IN  /\ v'[15] = IF v[x] + v[y] > 255 THEN 1 ELSE 0
            /\ x # 15 => v'[x] = (v[x] + v[y]) % 256]_vars

\* C12: after 8xy6, for every x and y, VF is bit 0 of Vx as it was, and for
\* x other than F Vx is its old value shifted right by one; Vy plays no part.
C12_ShiftRight ==
    [][(Executed /\ Hi(CurOp) = 8 /\ N(CurOp) = 6) =>
        LET x == X(CurOp)
        IN  /\ v'[15] = v[x] % 2
            /\ x # 15 => v'[x] = v[x] \div 2]_vars

\* the cells the sprite of a Dxyn covers with a set bit, each coordinate
\* wrapped on its own
SpriteCells(op) ==
    {<<(v[Y(op)] + r) % ScreenH, (v[X(op)] + c) % ScreenW>> :
        <<r, c>> \in {rc \in (0..(N(op) - 1)) \X (0..7) :
                        (mem[i + rc[1]] \div Pow2(7 - rc[2])) % 2 = 1}}

\* C13: Dxyn with the sprite inside memory completes for every Vx and Vy in
\* 0..255, and toggles exactly the cells (Vy + r) mod 32, (Vx + c) mod 64 of
\* the set sprite bits.
C13_DrawWraps ==
    [][(Fetching /\ Hi(CurOp) = 13 /\ i + N(CurOp) <= MemSize /\ at' # "step") =>
        /\ at' = "render"
        /\ screen' = (screen \ SpriteCells(CurOp)) \cup (SpriteCells(CurOp) \ screen)]_vars

\* this Dxyn repeats the instruction before it: the same word, with x and
\* y other than F, the same I, Vx, Vy and the same sprite bytes
RepeatsDraw ==
    /\ drawn.op = CurOp
    /\ X(CurOp) # 15 /\ Y(CurOp) # 15
    /\ drawn.i = i
    /\ drawn.vx = v[X(CurOp)] /\ drawn.vy = v[Y(CurOp)]
    /\ \A k \in 0..(N(CurOp) - 1) : mem[i + k] = drawn.sprite[k]

\* C14: VF after a draw is 1 exactly when the draw turned a lit pixel off;
\* and a Dxyn that repeats the one just before it puts the framebuffer back
\* as it was before the first, with VF 1 exactly when the first turned at
\* least one pixel on.
C14_DrawTwice ==
    [][(Executed /\ Hi(CurOp) = 13) =>
        /\ v'[15] = IF screen \ screen' # {} THEN 1 ELSE 0
        /\ RepeatsDraw =>
             /\ screen' = drawn.before
             /\ v'[15] = IF drawn.after \ drawn.before # {} THEN 1 ELSE 0]_vars

\* C14 witness: glyph 0 was drawn at (0, 0) and then twice at (2, 0); the
\* second of these has just undone the first, with a collision, and the
\* screen shows the glyph at (0, 0) alone again.
C14_Witness ==
    /\ at = "render"
    /\ drawn # NotDrawn
    /\ drawn.vx = 2
    /\ drawn.after = screen
    /\ drawn.before # screen
    /\ drawn.before \ screen # {}
    /\ screen \ drawn.before # {}
    /\ <<0, 0>> \in screen /\ <<0, 4>> \notin screen
    /\ v[15] = 1

\* one timer over one step: t before, u after, set marks the instruction
\* that writes it
TimerStep(t, u, set) ==
    /\ t >= 0 /\ u >= 0
    /\ at = "timers" =>
          /\ u \in {t, t - 1}
          /\ u < t => elapsed >= TimerPeriod
          /\ t = 0 => u = 0
    /\ (at # "timers" /\ ~(Fetching /\ Hi(CurOp) = 15 /\ NN(CurOp) = set)) => u = t

\* C15: the timers are never negative; update_timers lowers each by at most
\* 1, only when 1000/60 ms have passed since its last decrement, and leaves
\* a timer that is 0 at 0; nothing else changes delay_timer but Fx15, and
\* nothing else changes sound_timer but Fx18.
C15_TimersMonotone ==
    [][/\ TimerStep(delay_timer, delay_timer', 21)
       /\ TimerStep(sound_timer, sound_timer', 24)]_vars

\* C15 witness: both timers were set to 3, have counted down to 0 (the tone
\* has been stopped), and update_timers has just run on them at 0.
C15_Witness ==
    /\ at = "sound"
    /\ elapsed = 0
    /\ v[0] = 3
    /\ WordAt(RomBase + 2) = 15 * 4096 + 21
    /\ WordAt(RomBase + 4) = 15 * 4096 + 24
    /\ pc > RomBase + 4
    /\ delay_timer = 0 /\ sound_timer = 0
    /\ ~audio_playing

\* the instructions of step that write VF: the flag writers, and those whose
\* destination register x is F
WritesVF(op) ==
    \/ Hi(op) = 8 /\ N(op) \in {4, 5, 6, 7, 14}
    \/ Hi(op) = 13
    \/ IsFx1E(op)
    \/ /\ X(op) = 15
       /\ \/ Hi(op) \in {6, 7, 12}
          \/ Hi(op) = 8 /\ N(op) \in 0..3
          \/ Hi(op) = 15 /\ NN(op) \in {7, 10}

\* C16: VF changes only in step (or in the key wait step has entered), and
\* only when the instruction at pc is one of 8xy4, 8xy5, 8xy6, 8xy7, 8xyE,
\* Dxyn, Fx1E, or one of 6xnn, 7xnn, 8xy0..8xy3, Cxnn, Fx07, Fx0A with x = F.
C16_VFFrame ==
    [][v'[15] # v[15] =>
        /\ at \in {"step", "wait"}
        /\ pc + 1 < MemSize
        /\ WritesVF(CurOp)]_vars

\* C16 witness: with VF = 1 and V0 = 5, 70FF has wrapped V0 round to 4 and
\* VF is still 1.
C16_Witness ==
    /\ at = "render"
    /\ pc = RomBase + 6
    /\ WordAt(pc - 2) = 7 * 4096 + 255
    /\ v[0] = 4
    /\ v[15] = 1

\* C17: Fx1E always completes, adds Vx to I, and sets VF to 1 when the
\* mathematical sum I + Vx is above 0xFFF and to 0 otherwise, whatever I has
\* accumulated to.
C17_AddIndexTotal ==
    [][(Fetching /\ IsFx1E(CurOp)) =>
        /\ at' = "render"
        /\ i' = (i + v[X(CurOp)]) % U16
        /\ v'[15] = IF i + v[X(CurOp)] > MemSize - 1 THEN 1 ELSE 0]_vars

\* C18: load of an image of at most 4096 - 512 bytes succeeds with the 80
\* glyph bytes at 0x000..0x04F, image byte k at 0x200 + k, zero elsewhere,
\* PC = 0x200, an empty stack and zero registers and timers; load of a longer
\* image fails, and nothing runs after the failure.
C18_LoadBoundary ==
    [][/\ at = "load" =>
            IF Len(data) <= MemSize - RomBase
            THEN /\ at' = "run"
                 /\ \A a \in 0..(MemSize - 1) :
                       mem'[a] = IF a < Len(CHARACTER_SPRITES) THEN CHARACTER_SPRITES[a + 1]
                                 ELSE IF a - RomBase \in 0..(Len(data) - 1)
                                      THEN data[a - RomBase + 1]
                                 ELSE 0
                 /\ pc' = RomBase
                 /\ stack' = <<>>
                 /\ i' = 0
                 /\ \A r \in 0..(NumRegs - 1) : v'[r] = 0
                 /\ delay_timer' = 0 /\ sound_timer' = 0
            ELSE at' = "fatal"
       /\ at = "fatal" => at' = "fatal"]_vars

\* C18 witness: an image of exactly 4096 - 512 bytes has been loaded: its
\* first byte is at 0x200, its last in the last byte of memory, below the
\* glyph table.
C18_Witness ==
    /\ at = "run"
    /\ mem[0] = 240
    /\ mem[RomBase] = 18
    /\ mem[MemSize - 1] = 255
    /\ pc = RomBase

\* C19: for every value of Vx, Ex9E and ExA1 complete, leave the key latch
\* as it was, and set PC to p+4 or p+2: Ex9E to p+4 exactly when key Vx is
\* pressed, ExA1 to p+4 exactly when it is not; a key outside the 16 slots
\* is not pressed.
C19_KeySkipTotal ==
    [][(Fetching /\ Hi(CurOp) = 14 /\ NN(CurOp) \in {158, 161}) =>
        LET k    == v[X(CurOp)]
            down == k < NumKeys /\ keys_pressed[k]
            skip == IF NN(CurOp) = 158 THEN down ELSE ~down
        IN  /\ at' = "render"
            /\ keys_pressed' = keys_pressed
            /\ pc' = IF skip THEN pc + 4 ELSE pc + 2]_vars

\* where the run loop goes next from each of its places
LoopOrder ==
    /\ at = "poll" => at' \in {"poll", "timers"}
    /\ at = "timers" => at' = "sound"
    /\ at = "sound" => at' = "step"
    /\ at = "step" => at' \in {"render", "wait", "fatal"}
    /\ at = "wait" => at' \in {"wait", "render"}
    /\ at = "render" => at' = "sleep"
    /\ at = "sleep" => at' = IF running THEN "poll" ELSE "exited"

\* C20: an iteration of the run loop goes through poll_events, update_timers,
\* play_sound, one step and render, in that order, and instructions run in
\* step alone; a poll_events that consumes a quit event leaves running false;
\* once the loop has started running is never set back to true; and the
\* iteration that ends with running false is the last.
C20_RunLoop ==
    [][/\ LoopOrder
       /\ at \in {"poll", "timers", "sound", "render", "sleep"} =>
             UNCHANGED <<mem, v, i, pc, stack, screen>>
       /\ (at = "poll" /\ at' = "timers" /\ \E k \in 1..Len(events) : events[k] = Quit)
             => ~running'
       /\ (at # "run" /\ ~running) => ~running'
       /\ at = "exited" => at' = "exited"]_vars

\* C20 witness: the user quit during the first iteration of 6001 E09E E0A1:
\* that iteration ran 6001 and the loop has exited after it.
C20_Witness ==
    /\ at = "exited"
    /\ ~running
    /\ WordAt(RomBase + 2) = 14 * 4096 + 158
    /\ v[0] = 1
    /\ pc = RomBase + 2

====
